---- MODULE Spec2Model ----
(***************************************************************************)
(* A model of APIproxy.py: the /v1/chat/completions pass-through proxy.    *)
(*                                                                         *)
(* One request is followed from arrival to the end of its task.  The       *)
(* request body is a sequence of JSON lexemes (tokens), so that decoding   *)
(* it (json.loads) and re-encoding it (json.dumps) are real conversions.   *)
(* The upstream and the client are the environment: the upstream answers   *)
(* or fails, produces chunks, ends or errors; the client may disconnect.   *)
(***************************************************************************)
EXTENDS Naturals, Sequences, FiniteSets, TLC

(***************************************************************************)
(* Bounds of the model.                                                    *)
(***************************************************************************)
\* longest request body (in tokens) of the exhaustive classifier runs
MaxBodyLen == 5
\* most chunks the upstream produces for one response
MaxChunks == 3
\* most entries of a header mapping of the exhaustive filter runs
MaxHeaders == 3
\* most chunks either upstream produces when two requests are in flight
MaxPairChunks == 1

(***************************************************************************)
(* JSON text as a sequence of lexemes.                                     *)
(***************************************************************************)
StringTokens == {"\"stream\"", "\"model\"", "\"x\"", "\"\""}
NumberTokens == {"0", "1"}
LiteralTokens == {"true", "false", "null"}
PunctTokens == {"{", "}", "[", "]", ":", ","}
\* "ws" is a run of JSON whitespace, "not-json" a lexeme no JSON value starts
\* with, "\\xff" a byte that is not valid UTF-8
Tokens ==
  StringTokens \cup NumberTokens \cup LiteralTokens \cup PunctTokens
    \cup {"ws", "not-json", "\\xff"}

\* the tokens the exhaustive classifier runs draw bodies from
CoreTokens == {"{", "}", "[", "]", ":", "\"stream\"", "true", "false", "0"}

RECURSIVE SeqsUpTo(_, _)
SeqsUpTo(S, n) ==
  IF n = 0 THEN {<<>>}
  ELSE LET shorter == SeqsUpTo(S, n - 1)
       IN shorter \cup {Append(s, t) : s \in {x \in shorter : Len(x) = n - 1}, t \in S}

\* a parsed JSON value: kind, the lexeme of a scalar, the members of an
\* object (<<key, value>> pairs, in text order) or the items of an array
JStr(t) == [kind |-> "str", tok |-> t, items |-> <<>>]
JNum(t) == [kind |-> "num", tok |-> t, items |-> <<>>]
JBool(t) == [kind |-> "bool", tok |-> t, items |-> <<>>]
JNull == [kind |-> "null", tok |-> "null", items |-> <<>>]
JArr(xs) == [kind |-> "arr", tok |-> "[", items |-> xs]
JObj(ms) == [kind |-> "obj", tok |-> "{", items |-> ms]

At(b, i) == IF i >= 1 /\ i <= Len(b) THEN b[i] ELSE "EOF"

RECURSIVE SkipWs(_, _)
SkipWs(b, i) == IF At(b, i) = "ws" THEN SkipWs(b, i + 1) ELSE i

ParseFail == [ok |-> FALSE, val |-> JNull, next |-> 0]
ParseOk(v, n) == [ok |-> TRUE, val |-> v, next |-> n]

\* json.loads's decoder: one value starting at token i
RECURSIVE ParseValue(_, _)
RECURSIVE ParseElements(_, _, _)
RECURSIVE ParseMembers(_, _, _)
ParseValue(b, i) ==
  LET t == At(b, i) IN
  CASE t \in StringTokens -> ParseOk(JStr(t), i + 1)
    [] t \in NumberTokens -> ParseOk(JNum(t), i + 1)
    [] t \in {"true", "false"} -> ParseOk(JBool(t), i + 1)
    [] t = "null" -> ParseOk(JNull, i + 1)
    [] t = "[" ->
         LET j == SkipWs(b, i + 1) IN
         IF At(b, j) = "]" THEN ParseOk(JArr(<<>>), j + 1)
         ELSE ParseElements(b, j, <<>>)
    [] t = "{" ->
         LET j == SkipWs(b, i + 1) IN
         IF At(b, j) = "}" THEN ParseOk(JObj(<<>>), j + 1)
         ELSE ParseMembers(b, j, <<>>)
    [] OTHER -> ParseFail

ParseElements(b, i, acc) ==
  LET r == ParseValue(b, i) IN
  IF ~r.ok THEN ParseFail
  ELSE LET j == SkipWs(b, r.next)
           xs == Append(acc, r.val)
       IN CASE At(b, j) = "," -> ParseElements(b, SkipWs(b, j + 1), xs)
            [] At(b, j) = "]" -> ParseOk(JArr(xs), j + 1)
            [] OTHER -> ParseFail

ParseMembers(b, i, acc) ==
  LET key == At(b, i)
      c == SkipWs(b, i + 1)
  IN
  IF key \notin StringTokens \/ At(b, c) # ":" THEN ParseFail
  ELSE LET r == ParseValue(b, SkipWs(b, c + 1)) IN
       IF ~r.ok THEN ParseFail
       ELSE LET j == SkipWs(b, r.next)
                ms == Append(acc, <<key, r.val>>)
            IN CASE At(b, j) = "," -> ParseMembers(b, SkipWs(b, j + 1), ms)
                 [] At(b, j) = "}" -> ParseOk(JObj(ms), j + 1)
                 [] OTHER -> ParseFail

\* body.decode("utf-8") raises on a byte that is not UTF-8
DecodeUtf8Ok(b) == \A i \in 1..Len(b) : b[i] # "\\xff"

\* json.loads(body.decode("utf-8")): [ok, val]; ok is FALSE when it raises
Loads(b) ==
  IF ~DecodeUtf8Ok(b) THEN ParseFail
  ELSE LET r == ParseValue(b, SkipWs(b, 1)) IN
       IF r.ok /\ SkipWs(b, r.next) = Len(b) + 1 THEN r ELSE ParseFail

\* dict.get(key): the value of the last member with that key (a later
\* duplicate replaces an earlier one), None when there is none
RECURSIVE DictGet(_, _)
DictGet(ms, key) ==
  IF ms = <<>> THEN JNull
  ELSE LET last == ms[Len(ms)] IN
       IF last[1] = key THEN last[2]
       ELSE DictGet(SubSeq(ms, 1, Len(ms) - 1), key)

\* bool(value)
Truthy(v) ==
  CASE v.kind = "null" -> FALSE
    [] v.kind = "bool" -> v.tok = "true"
    [] v.kind = "num" -> v.tok # "0"
    [] v.kind = "str" -> v.tok # "\"\""
    [] OTHER -> v.items # <<>>

\* lines 89-92: the decoded body, or {} when decoding raised
Payload(b) == IF Loads(b).ok THEN Loads(b).val ELSE JObj(<<>>)

\* line 94: payload.get raises AttributeError unless payload is a dict
ClassifyRaises(b) == Payload(b).kind # "obj"

\* payload.get("stream") is True, in place of bool(...)
IsStreamStrict(b) ==
  LET v == DictGet(Payload(b).items, "\"stream\"") IN v.kind = "bool" /\ v.tok = "true"

\* line 94: is_stream = bool(payload.get("stream"))
IsStream(b) == Truthy(DictGet(Payload(b).items, "\"stream\""))

\* dict(...) of the members: one entry per key, at the place of its first
\* occurrence, holding the value of its last one
RECURSIVE DictItemsFrom(_, _)
DictItemsFrom(ms, i) ==
  IF i > Len(ms) THEN <<>>
  ELSE (IF \E j \in 1..(i - 1) : ms[j][1] = ms[i][1]
        THEN <<>>
        ELSE << <<ms[i][1], DictGet(ms, ms[i][1])>> >>) \o DictItemsFrom(ms, i + 1)

\* json.dumps with its default separators ", " and ": "
RECURSIVE Dumps(_)
RECURSIVE DumpElements(_)
RECURSIVE DumpMembers(_)
Dumps(v) ==
  CASE v.kind = "arr" -> <<"[">> \o DumpElements(v.items) \o <<"]">>
    [] v.kind = "obj" -> <<"{">> \o DumpMembers(DictItemsFrom(v.items, 1)) \o <<"}">>
    [] OTHER -> <<v.tok>>

DumpElements(xs) ==
  IF xs = <<>> THEN <<>>
  ELSE Dumps(Head(xs))
         \o (IF Len(xs) > 1 THEN <<",", "ws">> \o DumpElements(Tail(xs)) ELSE <<>>)

DumpMembers(ms) ==
  IF ms = <<>> THEN <<>>
  ELSE <<Head(ms)[1], ":", "ws">> \o Dumps(Head(ms)[2])
         \o (IF Len(ms) > 1 THEN <<",", "ws">> \o DumpMembers(Tail(ms)) ELSE <<>>)

(***************************************************************************)
(* Header mappings: functions from header names to values.                 *)
(***************************************************************************)
NoHeaders == [k \in {} |-> ""]

\* str.lower() on the header names of the model
Lower(k) ==
  CASE k = "Host" -> "host"
    [] k = "Authorization" -> "authorization"
    [] k = "Accept-Encoding" -> "accept-encoding"
    [] k = "Content-Encoding" -> "content-encoding"
    [] k = "Content-Length" -> "content-length"
    [] k = "Content-Type" -> "content-type"
    [] k = "Transfer-Encoding" -> "transfer-encoding"
    [] k = "Connection" -> "connection"
    [] k = "Keep-Alive" -> "keep-alive"
    [] k = "TE" -> "te"
    [] OTHER -> k

HopByHopUpstream ==
  {"host", "content-length", "connection", "keep-alive", "proxy-authenticate",
   "proxy-authorization", "te", "trailers", "transfer-encoding", "upgrade",
   "accept-encoding"}

HopByHopClient ==
  {"connection", "keep-alive", "proxy-authenticate", "proxy-authorization",
   "te", "trailers", "transfer-encoding", "upgrade", "content-encoding"}

\* a filter that looks the name up as it is spelled, without k.lower()
FilteredForUpstreamAsSpelled(original_headers) ==
  [k \in {x \in DOMAIN original_headers : x \notin HopByHopUpstream}
     |-> original_headers[k]]

_filtered_headers_for_upstream(original_headers) ==
  [k \in {x \in DOMAIN original_headers : Lower(x) \notin HopByHopUpstream}
     |-> original_headers[k]]

\* a filter for the client that was given the upstream direction's set
FilteredForClientWithUpstreamSet(upstream_headers) ==
  [k \in {x \in DOMAIN upstream_headers : Lower(x) \notin HopByHopUpstream}
     |-> upstream_headers[k]]

_filtered_headers_for_client(upstream_headers) ==
  [k \in {x \in DOMAIN upstream_headers : Lower(x) \notin HopByHopClient}
     |-> upstream_headers[k]]

(***************************************************************************)
(* The inputs of one request and the upstream's possible answers.          *)
(***************************************************************************)
\* the request bodies of the relay runs: the spec's scenarios and their kin
RequestBodies ==
  { <<"{", "\"model\"", ":", "\"x\"", ",", "\"stream\"", ":", "false", "}">>,
    <<"{", "\"stream\"", ":", "true", "}">>,
    <<"{", "\"stream\"", ":", "ws", "1", "}", "ws">>,
    <<"{", "\"model\"", ":", "\"x\"", "}">>,
    <<"not-json">>,
    <<"[", "]">>,
    <<"null">> }

\* request.headers: ASGI hands the names over in lower case
RequestHeaderSets ==
  { [k \in S |-> "v"] : S \in {{"host"}, {"host", "authorization"}} }

\* the header names of the exhaustive filter runs: every excluded name, some
\* of them in other spellings too, and names that pass
HeaderNames ==
  HopByHopUpstream \cup HopByHopClient
    \cup {"Host", "Content-Length", "Accept-Encoding", "Content-Encoding",
          "Transfer-Encoding", "Connection", "Keep-Alive", "TE", "Authorization",
          "authorization", "content-type", "x-request-id"}

\* every mapping of at most MaxHeaders of these names to a value
HeaderMappings ==
  UNION { [S -> {"v", "w"}] : S \in {T \in SUBSET HeaderNames : Cardinality(T) <= MaxHeaders} }

Statuses == {200, 204, 401, 500}

\* a chunk is "" (zero bytes: what a byte iterator hands over when a read or
\* the decoder's flush has nothing) or one byte
Chunks == {"", "a", "b"}

\* bytes the gzip framing adds to a body on the wire
GzipOverhead == 1

\* b"".join(chunks): the bytes of a sequence of chunks
RECURSIVE Join(_)
Join(cs) ==
  IF cs = <<>> THEN <<>>
  ELSE (IF Head(cs) = "" THEN <<>> ELSE <<Head(cs)>>) \o Join(Tail(cs))

\* the upstream's response headers: content-type and content-encoding or
\* not, and a framing: chunked, by declared length, or until close
UpstreamHeaderSets ==
  { [k \in S |-> CASE k = "content-type" -> "application/json"
                   [] k = "content-encoding" -> "gzip"
                   [] k = "transfer-encoding" -> "chunked"
                   [] OTHER -> n]
      : S \in { T \cup F : T \in SUBSET {"content-type", "content-encoding"},
                           F \in {{}, {"transfer-encoding"}, {"content-length"}} },
        n \in 0..(MaxChunks + GzipOverhead) }

\* bytes on the wire of the content produced so far
WireLen(cs, hdrs) ==
  Len(Join(cs)) + (IF "content-encoding" \in DOMAIN hdrs THEN GzipOverhead ELSE 0)

\* the transport ends a body of declared length exactly at that length
MayProduce(cs, hdrs, c) ==
  "content-length" \in DOMAIN hdrs
     => WireLen(Append(cs, c), hdrs) <= hdrs["content-length"]

MayEnd(cs, hdrs) ==
  "content-length" \in DOMAIN hdrs => WireLen(cs, hdrs) = hdrs["content-length"]

(***************************************************************************)
(* The pieces of the handler that the actions below are made of.           *)
(***************************************************************************)
\* json=payload in place of content=body: the decoded body, encoded again
UpstreamContentReencoded(b) == Dumps(Payload(b))

\* content=body: the bytes handed to the upstream call
UpstreamContent(b) == b

\* a relay whose "if chunk" lets every chunk through
ShouldYieldAlways(chunk) == TRUE

\* if chunk:
ShouldYield(chunk) == chunk # ""

\* a relay that re-frames what it forwards
YieldedReframed(chunk) == "a"

\* yield chunk
Yielded(chunk) == chunk

\* a generator with no except clause
GeneratorCatchesNothing(exc) == FALSE

\* except httpx.StreamClosed / except Exception: every Exception is caught;
\* a cancellation (CancelledError, GeneratorExit) is a BaseException and is not
GeneratorCatches(exc) == exc \in {"ConnectError", "ReadError", "StreamClosed"}

\* a stream opened without its context manager is never released
ReleaseConnLeaked(c) == c

\* leaving "async with client.stream(...) as r": the connection is released
ReleaseConn(c) == IF c = "open" THEN "closed" ELSE c

\* media_type=content_type or None ("" stands for None)
MediaType(hdrs) ==
  IF "content-type" \in DOMAIN hdrs THEN hdrs["content-type"] ELSE ""

\* Response.__init__'s headers: the given ones, a content-length computed
\* from the body when none was given (and the status has a body), a
\* content-type from media_type when none was given
ResponseHeaders(headers, media_type, body, status_code) ==
  LET keys == {Lower(k) : k \in DOMAIN headers}
      len == IF "content-length" \notin keys
                  /\ ~(status_code < 200 \/ status_code \in {204, 304})
             THEN ("content-length" :> Len(body))
             ELSE NoHeaders
      type == IF media_type # "" /\ "content-type" \notin keys
              THEN ("content-type" :> media_type)
              ELSE NoHeaders
  IN headers @@ len @@ type

NoResponse ==
  [via |-> "none", status_code |-> 0, media_type |-> "", headers |-> NoHeaders,
   body |-> <<>>]

\* a response that answers 200 whatever the upstream said
BufferedResponseOk(status_code, hdrs, filtered, resp_body) ==
  [via |-> "Response", status_code |-> 200, media_type |-> MediaType(hdrs),
   headers |-> ResponseHeaders(filtered, MediaType(hdrs),
                               resp_body, 200),
   body |-> resp_body]

\* lines 137-146: the response built from the upstream's status, its
\* content type, the filtered headers of line 138 and the body read
BufferedResponse(status_code, hdrs, filtered, resp_body) ==
  [via |-> "Response", status_code |-> status_code, media_type |-> MediaType(hdrs),
   headers |-> ResponseHeaders(filtered, MediaType(hdrs),
                               resp_body, status_code),
   body |-> resp_body]

\* a streaming response built without its media_type argument
StreamingResponseUntyped ==
  [via |-> "StreamingResponse", status_code |-> 200, media_type |-> "",
   headers |-> NoHeaders, body |-> <<>>]

\* lines 124-128: the start of the streaming response; its body is the
\* chunks the generator yields
StreamingResponse ==
  [via |-> "StreamingResponse", status_code |-> 200,
   media_type |-> "text/event-stream",
   headers |-> ("content-type" :> "text/event-stream; charset=utf-8"),
   body |-> <<>>]

\* an exception that leaves the handler: the framework answers 500
ServerError ==
  [via |-> "ServerError", status_code |-> 500, media_type |-> "text/plain",
   headers |-> ("content-type" :> "text/plain; charset=utf-8"),
   body |-> <<"Internal Server Error">>]

\* a call that carries the configured key of line 12 as its Authorization
UpstreamCallWithKey(hdrs, b) ==
  [method |-> "POST",
   headers |-> ("authorization" :> "Bearer UPSTREAM_API_KEY")
                 @@ _filtered_headers_for_upstream(hdrs),
   content |-> UpstreamContent(b)]

\* the upstream call: line 106-111 and 131-136
UpstreamCall(hdrs, b) ==
  [method |-> "POST", headers |-> _filtered_headers_for_upstream(hdrs),
   content |-> UpstreamContent(b)]

(***************************************************************************)
(* The state of one request.                                               *)
(***************************************************************************)
VARIABLES
  body,             \* request.body()
  reqHeaders,       \* request.headers
  clientConnected,  \* the client is still there
  pc,               \* where the request's task is
  mode,             \* "none", "streaming" or "buffered"
  calls,            \* the upstream calls made, in order
  conn,             \* the upstream connection: "none", "open", "closed"
  upStatus,         \* r.status_code (0 before the upstream answered)
  upHeaders,        \* r.headers
  upFail,           \* how the upstream failed: "none", "connect", "read"
  produced,         \* the chunks r.aiter_bytes() has produced
  pending,          \* the chunk being yielded to the client, if any
  delivered,        \* the chunks the client has received
  resp,             \* the response started or sent to the client
  streamEnd,        \* how the client stream ended: "none", "clean", "error", "cancelled"
  observed,         \* the task has observed the client's disconnect
  client_headers,   \* line 138: the upstream's headers, filtered for the client
  cur,              \* the request whose task the event loop is running
  other             \* the locals of the other request's task, when there is one

vars ==
  <<body, reqHeaders, clientConnected, pc, mode, calls, conn, upStatus, upHeaders,
    upFail, produced, pending, delivered, resp, streamEnd, observed, client_headers,
    cur, other>>

\* what no step of a request's task changes: its input, and the other task
inputVars == <<body, reqHeaders, cur, other>>
upVars == <<upStatus, upHeaders, upFail, produced>>

\* the locals of the running task and its two peers' states
Task ==
  [body |-> body, reqHeaders |-> reqHeaders, clientConnected |-> clientConnected,
   pc |-> pc, mode |-> mode, calls |-> calls, conn |-> conn, upStatus |-> upStatus,
   upHeaders |-> upHeaders, upFail |-> upFail, produced |-> produced,
   pending |-> pending, delivered |-> delivered, resp |-> resp,
   streamEnd |-> streamEnd, observed |-> observed, client_headers |-> client_headers]

\* a request as it arrives
NewTask(b, h) ==
  [body |-> b, reqHeaders |-> h, clientConnected |-> TRUE, pc |-> "handler",
   mode |-> "none", calls |-> <<>>, conn |-> "none", upStatus |-> 0,
   upHeaders |-> NoHeaders, upFail |-> "none", produced |-> <<>>, pending |-> <<>>,
   delivered |-> <<>>, resp |-> NoResponse, streamEnd |-> "none",
   observed |-> FALSE, client_headers |-> NoHeaders]

\* no other request
NoTask == [pc |-> "absent"]

\* the locals of a task as its request arrives
InitLocals(bodies, headerSets) ==
  /\ body \in bodies
  /\ reqHeaders \in headerSets
  /\ clientConnected = TRUE
  /\ pc = "handler"
  /\ mode = "none"
  /\ calls = <<>>
  /\ conn = "none"
  /\ upStatus = 0
  /\ upHeaders = NoHeaders
  /\ upFail = "none"
  /\ produced = <<>>
  /\ pending = <<>>
  /\ delivered = <<>>
  /\ resp = NoResponse
  /\ streamEnd = "none"
  /\ observed = FALSE
  /\ client_headers = NoHeaders

\* one request in flight
InitWith(bodies, headerSets) ==
  /\ InitLocals(bodies, headerSets)
  /\ cur = "A"
  /\ other = NoTask

Init == InitWith(RequestBodies, RequestHeaderSets)

\* every body of at most MaxBodyLen core tokens, for the classifier
InitClassify ==
  InitWith(SeqsUpTo(CoreTokens, MaxBodyLen), {[k \in {"host"} |-> "v"]})

\* a handler that opens the upstream call itself, before it returns the
\* streaming response
HandleOpensFirst ==
  /\ pc = "handler"
  /\ IF ClassifyRaises(body)
     THEN /\ pc' = "done"
          /\ resp' = ServerError
          /\ UNCHANGED <<mode, calls>>
     ELSE /\ pc' = IF IsStream(body) THEN "stream_start" ELSE "connecting"
          /\ mode' = IF IsStream(body) THEN "streaming" ELSE "buffered"
          /\ calls' = Append(calls, UpstreamCall(reqHeaders, body))
          /\ UNCHANGED resp
  /\ UNCHANGED <<inputVars, client_headers, clientConnected, conn, upVars, pending, delivered,
                 streamEnd, observed>>

\* lines 83-102 and, in the buffered mode, the call of line 131
Handle ==
  /\ pc = "handler"
  /\ IF ClassifyRaises(body)
     THEN /\ pc' = "done"
          /\ resp' = ServerError
          /\ UNCHANGED <<mode, calls>>
     ELSE IF IsStream(body)
     THEN /\ pc' = "stream_start"
          /\ mode' = "streaming"
          /\ UNCHANGED <<resp, calls>>
     ELSE /\ pc' = "connecting"
          /\ mode' = "buffered"
          /\ calls' = Append(calls, UpstreamCall(reqHeaders, body))
          /\ UNCHANGED resp
  /\ UNCHANGED <<inputVars, client_headers, clientConnected, conn, upVars, pending, delivered,
                 streamEnd, observed>>

\* the framework sends the start of the StreamingResponse
StartStream ==
  /\ pc = "stream_start"
  /\ pc' = "gen_start"
  /\ resp' = StreamingResponse
  /\ UNCHANGED <<inputVars, client_headers, clientConnected, mode, calls, conn, upVars, pending,
                 delivered, streamEnd, observed>>

\* the first step of event_generator: the call of line 106
GenOpen ==
  /\ pc = "gen_start"
  /\ pc' = "connecting"
  /\ calls' = Append(calls, UpstreamCall(reqHeaders, body))
  /\ UNCHANGED <<inputVars, client_headers, clientConnected, mode, conn, upVars, pending, delivered,
                 resp, streamEnd, observed>>

\* a buffered handler that swallows the exception and answers with what it
\* has read so far
RaiseSwallowed(exc) ==
  /\ conn' = ReleaseConn(conn)
  /\ pc' = "done"
  /\ IF mode = "streaming"
     THEN /\ streamEnd' = IF GeneratorCatches(exc) THEN "clean" ELSE "error"
          /\ UNCHANGED resp
     ELSE /\ resp' = [via |-> "Response", status_code |-> 200, media_type |-> "",
                      headers |-> NoHeaders, body |-> Join(produced)]
          /\ UNCHANGED streamEnd

\* an exception raised inside "async with": the connection is released;
\* the generator swallows it and ends; the buffered handler lets it out
Raise(exc) ==
  /\ conn' = ReleaseConn(conn)
  /\ pc' = "done"
  /\ IF mode = "streaming"
     THEN /\ streamEnd' = IF GeneratorCatches(exc) THEN "clean" ELSE "error"
          /\ UNCHANGED resp
     ELSE /\ resp' = ServerError
          /\ UNCHANGED streamEnd

UpstreamConnectOk ==
  /\ pc = "connecting"
  /\ \E s \in Statuses, h \in UpstreamHeaderSets :
       /\ upStatus' = s
       /\ upHeaders' = h
  /\ conn' = "open"
  /\ pc' = IF mode = "buffered" THEN "entered" ELSE "reading"
  /\ UNCHANGED <<inputVars, client_headers, clientConnected, mode, calls, upFail, produced, pending,
                 delivered, resp, streamEnd, observed>>

\* lines 137-138, the first statements inside the buffered "async with"
FilterForClient ==
  /\ pc = "entered"
  /\ client_headers' = _filtered_headers_for_client(upHeaders)
  /\ pc' = "reading"
  /\ UNCHANGED <<inputVars, clientConnected, mode, calls, conn, upVars, pending,
                 delivered, resp, streamEnd, observed>>

UpstreamConnectFail ==
  /\ pc = "connecting"
  /\ upFail' = "connect"
  /\ Raise("ConnectError")
  /\ UNCHANGED <<inputVars, client_headers, clientConnected, mode, calls, upStatus, upHeaders,
                 produced, pending, delivered, observed>>

\* r.aiter_bytes() produces a chunk: lines 113-116, or one round of aread()
UpstreamChunk ==
  /\ pc = "reading"
  /\ Len(produced) < MaxChunks
  /\ \E c \in Chunks :
       /\ MayProduce(produced, upHeaders, c)
       /\ produced' = Append(produced, c)
       /\ IF mode = "streaming" /\ ShouldYield(c)
          THEN pending' = <<Yielded(c)>> /\ pc' = "yielding"
          ELSE UNCHANGED <<pending, pc>>
  /\ UNCHANGED <<inputVars, client_headers, clientConnected, mode, calls, conn, upStatus, upHeaders,
                 upFail, delivered, resp, streamEnd, observed>>

\* the client takes the yielded chunk
ForwardChunk ==
  /\ pc = "yielding"
  /\ clientConnected
  /\ delivered' = delivered \o pending
  /\ pending' = <<>>
  /\ pc' = "reading"
  /\ UNCHANGED <<inputVars, client_headers, clientConnected, mode, calls, conn, upVars, resp,
                 streamEnd, observed>>

\* a chunk sent to a client that is gone is lost
DropChunk ==
  /\ pc = "yielding"
  /\ ~clientConnected
  /\ pending' = <<>>
  /\ pc' = "reading"
  /\ UNCHANGED <<inputVars, client_headers, clientConnected, mode, calls, conn, upVars, delivered,
                 resp, streamEnd, observed>>

\* the upstream ends its body: the generator ends, or lines 139-146
UpstreamEOF ==
  /\ pc = "reading"
  /\ MayEnd(produced, upHeaders)
  /\ conn' = ReleaseConn(conn)
  /\ pc' = "done"
  /\ IF mode = "streaming"
     THEN streamEnd' = "clean" /\ UNCHANGED resp
     ELSE /\ resp' = BufferedResponse(upStatus, upHeaders, client_headers, Join(produced))
          /\ UNCHANGED streamEnd
  /\ UNCHANGED <<inputVars, client_headers, clientConnected, mode, calls, upVars, pending,
                 delivered, observed>>

\* a read failure that surfaces while a chunk is being handed to the client
UpstreamErrorWhileRelaying ==
  /\ pc = "yielding"
  /\ upFail' = "read"
  /\ \E exc \in {"ReadError", "StreamClosed"} : Raise(exc)
  /\ UNCHANGED <<inputVars, client_headers, clientConnected, mode, calls, upStatus, upHeaders,
                 produced, pending, delivered, observed>>

\* reading the upstream fails
UpstreamError ==
  /\ pc = "reading"
  /\ upFail' = "read"
  /\ \E exc \in {"ReadError", "StreamClosed"} : Raise(exc)
  /\ UNCHANGED <<inputVars, client_headers, clientConnected, mode, calls, upStatus, upHeaders,
                 produced, pending, delivered, observed>>

ClientDisconnect ==
  /\ clientConnected
  /\ pc # "done"
  /\ clientConnected' = FALSE
  /\ UNCHANGED <<inputVars, client_headers, pc, mode, calls, conn, upVars, pending, delivered, resp,
                 streamEnd, observed>>

\* a relay shielded from the cancellation: it notes the disconnect and reads on
ObserveDisconnectShielded ==
  /\ ~clientConnected
  /\ mode = "streaming"
  /\ pc # "done"
  /\ ~observed
  /\ observed' = TRUE
  /\ UNCHANGED <<inputVars, client_headers, clientConnected, pc, mode, calls, conn, upVars, pending,
                 delivered, resp, streamEnd>>

\* the streaming response's task is cancelled: the cancellation (or the
\* close of the abandoned generator) is raised at the generator's suspension
\* point and passes through its except clauses
ObserveDisconnect ==
  /\ ~clientConnected
  /\ mode = "streaming"
  /\ pc # "done"
  /\ observed' = TRUE
  /\ conn' = ReleaseConn(conn)
  /\ pc' = "done"
  /\ streamEnd' = IF GeneratorCatches("CancelledError") THEN "clean" ELSE "cancelled"
  /\ pending' = <<>>
  /\ UNCHANGED <<inputVars, client_headers, clientConnected, mode, calls, upVars, delivered, resp>>

\* an event loop whose two tasks keep the chunk in hand in one module-level
\* variable instead of a local
SwitchSharingChunk ==
  /\ other # NoTask
  /\ cur' = IF cur = "A" THEN "B" ELSE "A"
  /\ other' = Task
  /\ body' = other.body
  /\ reqHeaders' = other.reqHeaders
  /\ clientConnected' = other.clientConnected
  /\ pc' = other.pc
  /\ mode' = other.mode
  /\ calls' = other.calls
  /\ conn' = other.conn
  /\ upStatus' = other.upStatus
  /\ upHeaders' = other.upHeaders
  /\ upFail' = other.upFail
  /\ produced' = other.produced
  /\ pending' = IF pending # <<>> /\ other.pending # <<>> THEN pending ELSE other.pending
  /\ delivered' = other.delivered
  /\ resp' = other.resp
  /\ streamEnd' = other.streamEnd
  /\ observed' = other.observed
  /\ client_headers' = other.client_headers

\* the event loop suspends the running task and resumes the other one: each
\* call of the handler (line 73) and of its generator (line 104) has locals
\* of its own; they share the module's client (line 19), which no line of
\* the handler assigns to or closes
Switch ==
  /\ other # NoTask
  /\ cur' = IF cur = "A" THEN "B" ELSE "A"
  /\ other' = Task
  /\ body' = other.body
  /\ reqHeaders' = other.reqHeaders
  /\ clientConnected' = other.clientConnected
  /\ pc' = other.pc
  /\ mode' = other.mode
  /\ calls' = other.calls
  /\ conn' = other.conn
  /\ upStatus' = other.upStatus
  /\ upHeaders' = other.upHeaders
  /\ upFail' = other.upFail
  /\ produced' = other.produced
  /\ pending' = other.pending
  /\ delivered' = other.delivered
  /\ resp' = other.resp
  /\ streamEnd' = other.streamEnd
  /\ observed' = other.observed
  /\ client_headers' = other.client_headers

Next ==
  \/ Handle
  \/ StartStream
  \/ GenOpen
  \/ UpstreamConnectOk
  \/ FilterForClient
  \/ UpstreamConnectFail
  \/ UpstreamChunk
  \/ ForwardChunk
  \/ DropChunk
  \/ UpstreamEOF
  \/ UpstreamError
  \/ ClientDisconnect
  \/ ObserveDisconnect

Spec == Init /\ [][Next]_vars

\* the steps the request's own task takes, as opposed to the upstream's and
\* the client's
TaskStep ==
  \/ Handle
  \/ StartStream
  \/ GenOpen
  \/ FilterForClient
  \/ ForwardChunk
  \/ DropChunk
  \/ ObserveDisconnect

\* the event loop runs the task whenever it can take a step; nothing is
\* assumed of the upstream (timeout=None, line 19) or of the client
FairBodies ==
  { <<"{", "\"stream\"", ":", "true", "}">>,
    <<"{", "\"model\"", ":", "\"x\"", "}">>,
    <<"not-json">>,
    <<"null">> }

InitFair == InitWith(FairBodies, RequestHeaderSets)

SpecFair == InitFair /\ [][Next]_vars /\ WF_vars(TaskStep)

\* the upstream, for its part, answers the connect or refuses it, and ends
\* its body or fails, however often the task comes back to read
SpecLive ==
  /\ InitFair
  /\ [][Next]_vars
  /\ WF_vars(TaskStep)
  /\ WF_vars(UpstreamConnectOk \/ UpstreamConnectFail)
  /\ SF_vars(UpstreamEOF \/ UpstreamError)

\* two requests in flight: a streaming one and one of either mode
PairBodies ==
  { <<"{", "\"stream\"", ":", "true", "}">>, <<"not-json">> }

\* the upstreams of the pair answer in few ways, to keep the product small
PairUpstream ==
  /\ upStatus \in {0, 200, 500}
  /\ DOMAIN upHeaders \subseteq {"content-type"}
  /\ Len(produced) <= MaxPairChunks

InitPair ==
  /\ InitLocals({<<"{", "\"stream\"", ":", "true", "}">>}, {[k \in {"host"} |-> "v"]})
  /\ cur = "A"
  /\ \E b \in PairBodies : other = NewTask(b, [k \in {"host", "authorization"} |-> "v"])

NextPair ==
  \/ Next /\ PairUpstream'
  \/ Switch

SpecPair == InitPair /\ [][NextPair]_vars

\* the classification of lines 88-102 alone, on every bounded body
SpecClassify == InitClassify /\ [][Handle]_vars

\* line 96 on every bounded header mapping, in a buffered request
InitFilterUpstream == InitWith({<<"not-json">>}, HeaderMappings)

SpecFilterUpstream == InitFilterUpstream /\ [][Handle]_vars

\* line 138 on every bounded header mapping: a buffered request whose
\* upstream has just answered with it
InitFilterClient ==
  /\ body = <<"not-json">>
  /\ reqHeaders = [k \in {"host"} |-> "v"]
  /\ clientConnected = TRUE
  /\ pc = "entered"
  /\ mode = "buffered"
  /\ calls = <<UpstreamCall(reqHeaders, body)>>
  /\ conn = "open"
  /\ upStatus = 200
  /\ upHeaders \in HeaderMappings
  /\ upFail = "none"
  /\ produced = <<>>
  /\ pending = <<>>
  /\ delivered = <<>>
  /\ resp = NoResponse
  /\ streamEnd = "none"
  /\ observed = FALSE
  /\ client_headers = NoHeaders
  /\ cur = "A"
  /\ other = NoTask

SpecFilterClient == InitFilterClient /\ [][FilterForClient]_vars

(***************************************************************************)
(* The claims.                                                             *)
(***************************************************************************)
IsPrefix(s, t) == Len(s) <= Len(t) /\ SubSeq(t, 1, Len(s)) = s

Terminated == pc = "done"

\* the upstream closed its stream normally and the client stayed to the end
StreamEndedNormally ==
  /\ mode = "streaming"
  /\ Terminated
  /\ upFail = "none"
  /\ clientConnected

\* the chunks that hold at least one byte
NonEmpty(cs) == SelectSeq(cs, LAMBDA c : c # "")

\* C1 as stated: in streaming mode the chunks delivered to the client are at
\* every moment a prefix of the chunks the upstream has produced, and when
\* the upstream closes normally the client has received exactly those
\* chunks, in order, and its stream ends with no error.
C1_Original ==
  mode = "streaming" =>
    /\ IsPrefix(delivered, produced)
    /\ StreamEndedNormally => delivered = produced /\ streamEnd = "clean"

\* C1, amended: in streaming mode the chunks delivered to the client are at
\* every moment a prefix of the chunks of at least one byte that the upstream
\* has produced, and when the upstream closes normally the client has
\* received exactly those, in order, and its stream ends with no error.
C1_RelayExact ==
  mode = "streaming" =>
    /\ IsPrefix(delivered, NonEmpty(produced))
    /\ StreamEndedNormally => delivered = NonEmpty(produced) /\ streamEnd = "clean"

\* two chunks with a zero-length one between them, then a normal close
C1_Witness ==
  StreamEndedNormally /\ produced = <<"a", "", "b">> /\ delivered = <<"a", "b">>

\* C2: once the relay has observed the client's disconnect, the upstream
\* connection is not open, the task is over, and from the observation on no
\* further chunk is read from the upstream and no further call is made.
C2_DisconnectStopsRelay ==
  /\ [](observed => conn # "open" /\ Terminated)
  /\ [][observed' => produced' = produced /\ calls' = calls]_vars

\* Scenario 4: the disconnect is observed after chunk 1 was delivered and
\* before a third chunk was read
C2_Witness ==
  /\ observed
  /\ delivered = <<"a">>
  /\ conn = "closed"
  /\ Len(produced) < MaxChunks

OpenConnections == IF conn = "open" THEN 1 ELSE 0
InFlight == IF Terminated THEN 0 ELSE 1

\* C3: a request whose task has terminated holds no open upstream
\* connection, in both modes and on every exit; so the open connections
\* never outnumber the requests in flight.
C3_ConnectionReleased ==
  /\ Terminated => conn # "open"
  /\ OpenConnections <= InFlight

\* a buffered request ended by an upstream error in mid-read
C3_Witness ==
  Terminated /\ mode = "buffered" /\ upFail = "read" /\ conn = "closed"

\* C4 as stated: in streaming mode an upstream failure never surfaces as an
\* error: the client has a 200 text/event-stream response, exactly the
\* chunks produced before the failure (none when the connection failed) and
\* a clean end of stream.
C4_Original ==
  mode = "streaming" /\ Terminated /\ upFail # "none" =>
    /\ resp.via = "StreamingResponse"
    /\ resp.status_code = 200
    /\ resp.media_type = "text/event-stream"
    /\ streamEnd = "clean"
    /\ clientConnected => delivered = produced
    /\ upFail = "connect" => delivered = <<>> /\ produced = <<>>

\* C4, amended: in streaming mode an upstream failure never surfaces as an
\* error: the client has a 200 text/event-stream response, exactly the
\* chunks of at least one byte produced before the failure (none when the
\* connection failed) and a clean end of stream.
C4_StreamFailureSwallowed ==
  mode = "streaming" /\ Terminated /\ upFail # "none" =>
    /\ resp.via = "StreamingResponse"
    /\ resp.status_code = 200
    /\ resp.media_type = "text/event-stream"
    /\ streamEnd = "clean"
    /\ clientConnected => delivered = NonEmpty(produced)
    /\ upFail = "connect" => delivered = <<>> /\ produced = <<>>

\* the upstream errors after two chunks, one of them of zero length
C4_Witness ==
  /\ mode = "streaming" /\ Terminated /\ upFail = "read" /\ clientConnected
  /\ produced = <<"a", "">> /\ delivered = <<"a">> /\ streamEnd = "clean"

\* the upstream's body is complete
BodyComplete == upStatus # 0 /\ upFail = "none" /\ MayEnd(produced, upHeaders)

\* C5: in non-streaming mode a failed connection or a failed read ends the
\* request with the server's error response; a response built by the handler
\* always stands on an upstream response whose body was read to its end.
C5_BufferedFailureIsError ==
  mode = "buffered" =>
    /\ Terminated /\ upFail # "none" => resp.via = "ServerError" /\ resp.status_code = 500
    /\ resp.via = "Response" => BodyComplete /\ resp.body = Join(produced)

\* the read fails after part of the body has arrived
C5_Witness ==
  /\ mode = "buffered" /\ Terminated /\ upFail = "read"
  /\ produced = <<"a">> /\ resp.via = "ServerError"

\* the headers no response passes on to the client
ToClientExclusion ==
  {"connection", "keep-alive", "proxy-authenticate", "proxy-authorization", "te",
   "trailers", "transfer-encoding", "upgrade", "content-encoding"}

\* the upstream's headers (names in lower case) without the excluded ones
Mirrored(hdrs) == [k \in DOMAIN hdrs \ ToClientExclusion |-> hdrs[k]]

\* C6 as stated: the buffered response has the upstream's status, its
\* complete body, and exactly the upstream's headers minus the to-client
\* exclusion set.
C6_Original ==
  resp.via = "Response" =>
    /\ resp.status_code = upStatus
    /\ resp.body = Join(produced)
    /\ resp.headers = Mirrored(upHeaders)

\* C6, amended: the buffered response has the upstream's status, its
\* complete body, and the upstream's headers minus the to-client exclusion
\* set, plus at most a content-length set from the body's length when those
\* headers carry none.
C6_Mirror ==
  resp.via = "Response" =>
    /\ resp.status_code = upStatus
    /\ BodyComplete /\ resp.body = Join(produced)
    /\ LET m == Mirrored(upHeaders) IN
         /\ \A k \in DOMAIN m : k \in DOMAIN resp.headers /\ resp.headers[k] = m[k]
         /\ DOMAIN resp.headers \subseteq DOMAIN m \cup {"content-length"}
         /\ "content-length" \in DOMAIN resp.headers \ DOMAIN m
              => resp.headers["content-length"] = Len(resp.body)

\* a 401 with a chunked two-byte body is mirrored, its framing replaced
C6_Witness ==
  /\ resp.via = "Response"
  /\ resp.status_code = 401
  /\ "transfer-encoding" \in DOMAIN upHeaders
  /\ "content-encoding" \in DOMAIN upHeaders
  /\ resp.body = <<"a", "b">>
  /\ resp.headers["content-length"] = 2

\* C7: every upstream call, in both modes, carries the request's body token
\* for token, whether or not the body is JSON; the body itself never changes.
C7_BodyVerbatim ==
  \A i \in 1..Len(calls) : calls[i].content = body

\* Scenario 5: not-json is forwarded as it came
C7_Witness ==
  /\ body = <<"not-json">>
  /\ mode = "buffered"
  /\ Len(calls) = 1
  /\ calls[1].content = <<"not-json">>

Classified == pc # "handler"

\* the value of the body's stream field, when the body is a JSON object
\* that has one (the last, if it is repeated)
StreamFieldIs(b, P(_)) ==
  /\ Loads(b).ok
  /\ Loads(b).val.kind = "obj"
  /\ LET ms == Loads(b).val.items IN
       \E i \in 1..Len(ms) :
         /\ ms[i][1] = "\"stream\""
         /\ \A j \in (i + 1)..Len(ms) : ms[j][1] # "\"stream\""
         /\ P(ms[i][2])

JsonTrue(v) == v.kind = "bool" /\ v.tok = "true"

\* what Python's bool() takes for true
JsonTruthy(v) ==
  \/ JsonTrue(v)
  \/ v.kind = "num" /\ v.tok = "1"
  \/ v.kind = "str" /\ v.tok \in {"\"stream\"", "\"model\"", "\"x\""}
  \/ v.kind \in {"arr", "obj"} /\ Len(v.items) >= 1

C9_ClassificationNeverFails ==
  Classified =>
    /\ mode # "none"
    /\ mode = "buffered" => Len(calls) = 1 /\ calls[1].content = body

\* C10 as stated: a request whose task is over has made exactly one upstream
\* call.
C10_ExactlyOneCall ==
  Terminated => Len(calls) = 1

\* the names claim C11 lists, and the names claim C12 lists
ToUpstreamExclusion ==
  {"host", "content-length", "connection", "keep-alive", "proxy-authenticate",
   "proxy-authorization", "te", "trailers", "transfer-encoding", "upgrade",
   "accept-encoding"}

ToClientExclusionNames ==
  {"content-encoding", "connection", "keep-alive", "proxy-authenticate",
   "proxy-authorization", "te", "trailers", "transfer-encoding", "upgrade"}

\* name k is, letter case aside, one of the names of E
NamedIn(k, E) == \E e \in E : Lower(k) = Lower(e)

\* out keeps exactly the pairs of inp whose name is not in E, as they are
KeepsAllBut(out, inp, E) ==
  /\ \A k \in DOMAIN out : ~NamedIn(k, E)
  /\ DOMAIN out \subseteq DOMAIN inp
  /\ \A k \in DOMAIN inp : ~NamedIn(k, E) => k \in DOMAIN out /\ out[k] = inp[k]

\* C11: for every header mapping the to-upstream filter's output has no
\* key that is, letter case aside, one of the eleven excluded names, and it
\* keeps every other pair of the input with the same spelling and the same
\* value; the input mapping is never modified.
C11_UpstreamFilter ==
  /\ [](calls # <<>> => KeepsAllBut(calls[1].headers, reqHeaders, ToUpstreamExclusion))
  /\ [][reqHeaders' = reqHeaders]_vars

\* a mapping with an excluded name in another spelling, an excluded name in
\* lower case and a name that passes: only the last is handed on
C11_Witness ==
  /\ calls # <<>>
  /\ DOMAIN reqHeaders = {"Host", "accept-encoding", "Authorization"}
  /\ reqHeaders["Authorization"] = "w"
  /\ calls[1].headers = [k \in {"Authorization"} |-> "w"]

\* the filter of line 138 has acted
FilteredForClient == pc = "reading" /\ mode = "buffered"

\* C12: for every header mapping the to-client filter's output has no key
\* that is, letter case aside, content-encoding or one of the eight
\* connection-management names, and it keeps every other pair unchanged;
\* host, content-length and accept-encoding, excluded only towards the
\* upstream, are kept.
C12_ClientFilter ==
  /\ [](FilteredForClient =>
          /\ KeepsAllBut(client_headers, upHeaders, ToClientExclusionNames)
          /\ \A k \in DOMAIN upHeaders :
                NamedIn(k, {"host", "content-length", "accept-encoding"})
                  => k \in DOMAIN client_headers)
  /\ [][upHeaders' = upHeaders]_vars

\* content-encoding in another spelling is dropped while host and
\* content-length pass
C12_Witness ==
  /\ FilteredForClient
  /\ DOMAIN upHeaders = {"Content-Encoding", "host", "Content-Length"}
  /\ DOMAIN client_headers = {"host", "Content-Length"}

\* the start of the streaming response has been sent
Started ==
  /\ resp.via = "StreamingResponse"
  /\ resp.status_code = 200
  /\ resp.media_type = "text/event-stream"

\* C13: every streaming response has status 200 and media type
\* text/event-stream whatever the upstream does: its status code, its
\* headers, a connect failure or a read error never change them.
C13_StreamingAlways200 ==
  /\ [](mode = "streaming" /\ resp.via # "none" => Started)
  /\ [][mode = "streaming" /\ resp.via # "none" => resp' = resp]_vars

\* the upstream answered 500 with a content type of its own and then failed
C13_Witness ==
  /\ mode = "streaming"
  /\ Terminated
  /\ upStatus = 500
  /\ "content-type" \in DOMAIN upHeaders
  /\ upFail = "read"
  /\ Started

\* C14: in either mode, once the client has disconnected the task
\* terminates and closes its upstream connection by its own steps, without
\* waiting for the upstream to answer or to finish its body.
C14_DisconnectTerminates ==
  (~clientConnected) ~> (Terminated /\ conn # "open")

\* C15: in streaming mode the start of the response (200,
\* text/event-stream) precedes the upstream call and so the first chunk read
\* from the upstream, and it is sent without any step of the upstream, to
\* every client that has not gone before it.
C15_StartPrecedesUpstream ==
  /\ [](mode = "streaming" /\ (calls # <<>> \/ conn # "none" \/ produced # <<>>)
          => Started)
  /\ (mode = "streaming") ~> (Started \/ observed)

\* the response has started, the upstream has been called and has produced
\* nothing, not even its status line
C15_Witness ==
  /\ mode = "streaming"
  /\ Started
  /\ pc = "connecting"
  /\ Len(calls) = 1
  /\ upStatus = 0
  /\ produced = <<>>

\* the state of the specification's state machine the task is in
TaskState ==
  CASE pc \in {"handler", "stream_start", "gen_start"} -> "Idle"
    [] pc = "connecting" -> "Connecting"
    [] pc \in {"entered", "reading"} -> "UpstreamOpen"
    [] pc = "yielding" -> "RelayingChunk"
    [] pc = "done" -> "Closed"

\* a step that stays in its state or moves along
\* Idle, Connecting, (UpstreamOpen, RelayingChunk)*
MovesAlong ==
  \/ TaskState' = TaskState
  \/ <<TaskState, TaskState'>> \in
       { <<"Idle", "Connecting">>, <<"Connecting", "UpstreamOpen">>,
         <<"UpstreamOpen", "RelayingChunk">>, <<"RelayingChunk", "UpstreamOpen">> }

ClosedIsTerminal ==
  Terminated => pc' = "done" /\ produced' = produced /\ delivered' = delivered

\* C16 as stated: Closed is entered from UpstreamOpen on normal EOF, from
\* RelayingChunk on an upstream error and from any state on the client's
\* disconnect, and in no other way.
C16_Original ==
  [][mode' = "streaming" =>
       /\ ClosedIsTerminal
       /\ \/ MovesAlong
          \/ /\ TaskState' = "Closed"
             /\ \/ observed'
                \/ TaskState = "UpstreamOpen" /\ upFail' = "none"
                \/ TaskState = "RelayingChunk" /\ upFail' # "none"]_vars

\* C16: a streaming task only moves along Idle, Connecting, alternations
\* of UpstreamOpen and RelayingChunk, then Closed; Closed is terminal; it is
\* entered from UpstreamOpen on normal EOF or on a read error, from
\* Connecting on a connect failure and from any state on the client's
\* disconnect; with a fair task and an upstream that eventually answers and
\* eventually ends or fails, every streaming task reaches Closed.
C16_Lifecycle ==
  /\ [][mode' = "streaming" =>
         /\ ClosedIsTerminal
         /\ \/ MovesAlong
            \/ /\ TaskState' = "Closed"
               /\ \/ observed'
                  \/ TaskState = "UpstreamOpen" /\ upFail' \in {"none", "read"}
                  \/ TaskState = "Connecting" /\ upFail' = "connect"]_vars
  /\ (mode = "streaming") ~> Terminated

\* a relay that delivered a chunk and was then closed by a read error, with
\* the client still there
C16_Witness ==
  /\ mode = "streaming"
  /\ TaskState = "Closed"
  /\ upFail = "read"
  /\ ~observed
  /\ clientConnected
  /\ delivered # <<>>

\* C18: in both modes the headers handed to the upstream call are the
\* inbound headers less the to-upstream exclusion set and nothing else: no
\* header is added, the configured key is never applied, and an
\* Authorization header goes upstream exactly when the client sent one.
C18_UpstreamHeaders ==
  \A i \in 1..Len(calls) :
    /\ KeepsAllBut(calls[i].headers, reqHeaders, ToUpstreamExclusion)
    /\ NamedIn("authorization", DOMAIN calls[i].headers)
         <=> NamedIn("authorization", DOMAIN reqHeaders)

\* a streaming call made for a client that sent no Authorization, and none
\* went upstream
C18_Witness ==
  /\ mode = "streaming"
  /\ Len(calls) = 1
  /\ ~NamedIn("authorization", DOMAIN reqHeaders)
  /\ DOMAIN calls[1].headers = {}

\* C19: in non-streaming mode a content-length header on the client
\* response always equals the byte length of the body sent, also when the
\* upstream's body was content-encoded and arrives decoded.
C19_ContentLengthMatchesBody ==
  resp.via = "Response" /\ "content-length" \in DOMAIN resp.headers
    => resp.headers["content-length"] = Len(resp.body)

\* C20: in streaming mode a zero-length chunk read from the upstream is not
\* forwarded and does not end the relay: the task goes on reading, and a
\* relay that ends normally has delivered exactly the non-empty chunks, in
\* order.
C20_EmptyChunksSkipped ==
  /\ [](mode = "streaming" =>
          /\ \A i \in 1..Len(delivered) : delivered[i] # ""
          /\ pending # <<"">>
          /\ IsPrefix(delivered, NonEmpty(produced))
          /\ StreamEndedNormally => delivered = NonEmpty(produced))
  /\ [][mode = "streaming" /\ produced' = Append(produced, "")
         => pc' = "reading" /\ conn' = "open" /\ delivered' = delivered]_vars

\* the upstream began with two empty chunks; the relay went on and the
\* chunk after them arrived
C20_Witness ==
  /\ StreamEndedNormally
  /\ produced = <<"", "", "b">>
  /\ delivered = <<"b">>

\* the state of request x, running or suspended
Req(x) == IF cur = x THEN Task ELSE other

\* everything request t's client and upstream have seen comes from t's own
\* input and t's own upstream, and t has ended only for a cause of its own
OwnOutcome(t) ==
  /\ \A i \in 1..Len(t.calls) :
       /\ t.calls[i].content = t.body
       /\ KeepsAllBut(t.calls[i].headers, t.reqHeaders, ToUpstreamExclusion)
  /\ t.mode = "streaming" => IsPrefix(t.delivered, NonEmpty(t.produced))
  /\ t.resp.via = "Response" =>
       t.resp.body = Join(t.produced) /\ t.resp.status_code = t.upStatus
  /\ t.observed => ~t.clientConnected
  /\ t.pc = "done" =>
       \/ t.observed
       \/ t.upFail # "none"
       \/ t.resp.via = "ServerError"
       \/ t.conn = "closed" /\ MayEnd(t.produced, t.upHeaders)

\* C17: with two requests in flight on the one outbound client, under
\* every interleaving, each request's client receives only bytes and status
\* of that request's own upstream call, and no step of one request (an
\* upstream error, a disconnect, its termination) ends or changes the other.
C17_Independent ==
  /\ [](OwnOutcome(Req("A")) /\ OwnOutcome(Req("B")))
  /\ [][Req("A")' = Req("A") \/ Req("B")' = Req("B")]_vars

\* one request was closed by a read error after its first chunk; the other,
\* interleaved with it, relayed its own chunk and ended normally
C17_Witness ==
  /\ Req("A").pc = "done"
  /\ Req("A").upFail = "read"
  /\ Req("A").delivered = <<"a">>
  /\ Req("B").mode = "streaming"
  /\ Req("B").pc = "done"
  /\ Req("B").upFail = "none"
  /\ Req("B").clientConnected
  /\ Req("B").delivered = <<"b">>

====
